---- MODULE Spec2Model ----
(***************************************************************************)
(* ChamLing backend (cham_ling/api): the entity store (Dictionary, Word,   *)
(* Purchase, LearningProgress) and the request handlers of views.py with   *)
(* the serializers of serializers.py.  Each handler is an operator giving  *)
(* its HTTP response together with the tables as it leaves them, and an    *)
(* action that installs those tables.                                      *)
(*   Spec              the dictionary, word, purchase and progress         *)
(*                     handlers, called by two registered users            *)
(*   PctSpec           LearningProgress.get_progress_percentage alone      *)
(*   AccountSpec       registration, login, profile, priced listings and   *)
(*                     their purchase, from an empty User table            *)
(*   CoverSpec         one dictionary created and updated with covers,     *)
(*                     under every result of the image lookup              *)
(*   ProgressRaceSpec  the progress handlers step by step, interleaved     *)
(*   PurchaseRaceSpec  the purchase handler step by step, interleaved      *)
(***************************************************************************)
EXTENDS Integers, FiniteSets, Sequences, Bags, TLC

\* ---------------------------------------------------------------- bounds
MaxDicts == 2        \* dictionaries ever created (ids are never reused)
MaxWords == 2        \* words ever created
MaxProgress == 1     \* rows the LearningProgress table holds at a time
MaxTotal == 8        \* largest word count fed to get_progress_percentage
MaxLearned == 8      \* largest learned count fed to get_progress_percentage

\* ------------------------------------------------------------ vocabulary
Users == {"alice", "bob"}
DictIds == 1..MaxDicts
WordIds == 1..MaxWords
Absent == "<absent>"                      \* key missing from request.data
PAYMENT_CODE == "1013"
NameInputs == {Absent, "", "Animals"}
DescriptionInputs == {Absent, "", "Zoo"}
BoolInputs == {Absent, "true", "false"}
PaymentInputs == {Absent, PAYMENT_CODE, "0000"}
AccessInputs == {Absent, "permanent", "temporary", "weekly"}
WordInputs == {Absent, "cat"}
LearnedInputs == [given : BOOLEAN, ids : SUBSET WordIds]
PriceInputs == {Absent, "5.00"}
\* Covers: the URL a request sends, the file it uploads, and what
\* get_unsplash_image returns when it is called: None, the urls.regular of
\* the service's answer, or one longer than a URLField holds.
None == "<None>"
NoFile == ""
EXAMPLE_COVER == "https://example.com/custom-image.jpg"
UNSPLASH_REGULAR == "https://images.unsplash.com/photo-1"
UNSPLASH_LONG == "https://images.unsplash.com/photo-2?<over 200 characters>"
CoverInputs == {Absent, "", EXAMPLE_COVER}
FileInputs == {Absent, "cover.png"}
OwnerInputs == {Absent, "bob"}
UnsplashResults == {None, UNSPLASH_REGULAR, UNSPLASH_LONG}
\* The requests of Spec leave price, allow_temporary_access, the cover and
\* owner out; those of AccountSpec set the price and the temporary access,
\* those of CoverSpec the price, the cover and owner.
DictionaryBodies ==
    [name : NameInputs, description : DescriptionInputs, is_for_sale : BoolInputs,
     price : {Absent}, allow_temporary_access : {Absent},
     cover_image : {Absent}, cover_image_file : {Absent}, owner : {Absent}]
PricedBodies ==
    [name : {"Animals"}, description : {"Zoo"}, is_for_sale : {"true"},
     price : PriceInputs, allow_temporary_access : {Absent, "true"},
     cover_image : {Absent}, cover_image_file : {Absent}, owner : {Absent}]
CoverBodies ==
    [name : {Absent, "Animals"}, description : {Absent, "Zoo"},
     is_for_sale : {Absent, "true"},
     price : PriceInputs, allow_temporary_access : {Absent},
     cover_image : CoverInputs, cover_image_file : FileInputs, owner : OwnerInputs]

\* Users names the primary keys of the User rows (the identity a token
\* resolves to); UserKeys is the order in which registration hands them out.
UserKeys == <<"alice", "bob">>
AnonymousUser == "<anonymous>"
UsernameInputs == {Absent, "", "ann", "ben"}
EmailInputs == {Absent, "ann@x.io", "ann@X.io", "ben@x.io"}
PasswordInputs == {Absent, "pw"}
NoInteger == [given |-> FALSE, value |-> 0]
HourInputs == {NoInteger} \cup {[given |-> TRUE, value |-> v] : v \in {-1, 0, 23, 24}}
MinuteInputs == {NoInteger} \cup {[given |-> TRUE, value |-> v] : v \in {-1, 0, 59, 60}}
\* A profile request either sends the notification fields alone or sends
\* id, username, email and balance along with them.
ProfileBodies ==
    [notifications_enabled : BoolInputs, notification_hour : HourInputs,
     notification_minute : MinuteInputs,
     username : {Absent}, email : {Absent}, balance : {Absent}]
    \cup
    [notifications_enabled : {Absent, "true"},
     notification_hour : {NoInteger, [given |-> TRUE, value |-> 24]},
     notification_minute : {NoInteger},
     username : {"eve"}, email : {"eve@x.io"}, balance : {"999.00"}]

VARIABLES
    dictionaries,    \* Dictionary table: id -> [owner, name, description, is_for_sale,
                     \*   price, allow_temporary_access, cover_image, cover_image_file]
    words,           \* Word table: id -> dictionary id
    purchases,       \* Purchase table: bag of [user, dictionary, access_type] rows
    progress,        \* LearningProgress table: set of [user, dictionary, learned_words]
    nextDictId,      \* autoincrement primary keys
    nextWordId,
    saved,           \* history: (user, dictionary) pairs whose progress save has succeeded
    pctLearned,      \* inputs and result of get_progress_percentage (PctSpec)
    pctTotal,
    pctResult,
    users,           \* User table: id -> [username, email, balance, notification fields]
    nextUserId,      \* position in UserKeys of the next primary key
    inflight         \* requests being handled step by step (the two race specs)

store == <<dictionaries, words, purchases, progress>>
counters == <<nextDictId, nextWordId>>
pctVars == <<pctLearned, pctTotal, pctResult>>
accounts == <<users, nextUserId>>
vars == <<dictionaries, words, purchases, progress, nextDictId, nextWordId,
          saved, pctLearned, pctTotal, pctResult, users, nextUserId, inflight>>

\* ------------------------------------------------------------- responses
NoList == {}
NoPct == -1
NoDetail == ""
NOT_FOUND == "Dictionary not found."
NO_ACCESS == "You do not have access to this dictionary."
INVALID == "validation error"

\* A response carrying data: the ids listed in it, and the
\* progress_percentage when it is a progress representation.
Response(status, list, pct) ==
    [status |-> status, detail |-> NoDetail, hasData |-> TRUE,
     list |-> list, pct |-> pct]

\* A response carrying only a detail message (or nothing).
ErrorResponse(status, detail) ==
    [status |-> status, detail |-> detail, hasData |-> FALSE,
     list |-> NoList, pct |-> NoPct]

\* --------------------------------------------------------------- queries
Exists(pk) == pk \in DOMAIN dictionaries

IsOwner(u, pk) == dictionaries[pk].owner = u

\* Purchase.objects.filter(user=..., dictionary=...).exists()
HasPurchase(u, pk) ==
    \E p \in BagToSet(purchases) : p.user = u /\ p.dictionary = pk

\* dictionary.words / Word.objects.filter(dictionary=dictionary)
WordsOf(pk) == {w \in DOMAIN words : words[w] = pk}

ProgressOf(u, pk) == {r \in progress : r.user = u /\ r.dictionary = pk}

\* ------------------------------------------------- progress percentage
\* Python's round(): to the nearest integer, a tie going to the even one.
\* n / d is the exact quotient; for the totals used here the double
\* arithmetic of (learned_count / total_words) * 100 gives the same result.
RoundHalfEven(n, d) ==
    LET q == n \div d
        r == n % d
    IN  IF 2 * r < d THEN q
        ELSE IF 2 * r > d THEN q + 1
        ELSE IF q % 2 = 0 THEN q ELSE q + 1

\* Mutant: int() in place of round().
get_progress_percentage_truncated(learned_count, total_words) ==
    IF total_words = 0 THEN 0
    ELSE (100 * learned_count) \div total_words

get_progress_percentage(learned_count, total_words) ==
    IF total_words = 0 THEN 0
    ELSE RoundHalfEven(100 * learned_count, total_words)

\* LearningProgress.get_progress_percentage of the row r.
Percentage(r) ==
    get_progress_percentage(Cardinality(r.learned_words),
                            Cardinality(WordsOf(r.dictionary)))

\* ------------------------------------------------ DictionarySerializer
\* BooleanField.to_internal_value on the form values used here.
ParseBool(s) == s = "true"

\* Python truthiness of data.get(key): a missing key and '' are both falsy.
Falsy(s) == s \in {Absent, ""}

\* Field-level validation of the ModelSerializer: name is required on a
\* full (non-partial) save and may never be blank; description may be blank
\* or missing; is_for_sale must parse as a boolean; cover_image may be blank
\* or missing and is otherwise a URL of at most 200 characters (the
\* max_length of models.URLField).  The language codes, the price and the
\* uploaded file of the request are taken to be well-formed.
FieldsValid(body, partial) ==
    /\ body.name = Absent => partial
    /\ body.name # ""
    /\ body.is_for_sale \in {Absent, "true", "false"}
    /\ body.cover_image # UNSPLASH_LONG

\* DictionarySerializer.validate: the for-sale check applies only when the
\* serializer has no instance, i.e. on create.
DictionarySerializerValidate(body, hasInstance) ==
    (body.is_for_sale # Absent /\ ParseBool(body.is_for_sale)) =>
        /\ ~(Falsy(body.name) /\ ~hasInstance)
        /\ ~(Falsy(body.description) /\ ~hasInstance)

\* DecimalField.to_internal_value, in hundredths.
ParsePrice(s) == IF s = "5.00" THEN 500 ELSE 0

\* Dictionary.objects.create(owner=request.user, **validated_data) with the
\* model defaults for the fields the request leaves out.  owner is a
\* read-only field of the serializer: validated_data never holds it.
NewDictionary(u, body) ==
    [owner |-> u,
     name |-> body.name,
     description |-> IF body.description = Absent THEN "" ELSE body.description,
     is_for_sale |-> IF body.is_for_sale = Absent THEN FALSE
                     ELSE ParseBool(body.is_for_sale),
     price |-> IF body.price = Absent THEN 0 ELSE ParsePrice(body.price),
     allow_temporary_access |->
         IF body.allow_temporary_access = Absent THEN FALSE
         ELSE ParseBool(body.allow_temporary_access),
     cover_image |-> IF body.cover_image = Absent THEN "" ELSE body.cover_image,
     cover_image_file |-> IF body.cover_image_file = Absent THEN NoFile
                          ELSE body.cover_image_file]

\* Mutant: owner is a writable field of the serializer.
UpdatedDictionary_writableOwner(d, body) ==
    [owner |-> IF body.owner = Absent THEN d.owner ELSE body.owner,
     name |-> IF body.name = Absent THEN d.name ELSE body.name,
     description |-> IF body.description = Absent THEN d.description
                     ELSE body.description,
     is_for_sale |-> IF body.is_for_sale = Absent THEN d.is_for_sale
                     ELSE ParseBool(body.is_for_sale),
     price |-> IF body.price = Absent THEN d.price ELSE ParsePrice(body.price),
     allow_temporary_access |->
         IF body.allow_temporary_access = Absent THEN d.allow_temporary_access
         ELSE ParseBool(body.allow_temporary_access),
     cover_image |-> IF body.cover_image = Absent THEN d.cover_image
                     ELSE body.cover_image,
     cover_image_file |-> IF body.cover_image_file = Absent THEN d.cover_image_file
                          ELSE body.cover_image_file]

\* DictionarySerializer.update: setattr for every validated field, then save.
\* owner is read-only and never among them.
UpdatedDictionary(d, body) ==
    [owner |-> d.owner,
     name |-> IF body.name = Absent THEN d.name ELSE body.name,
     description |-> IF body.description = Absent THEN d.description
                     ELSE body.description,
     is_for_sale |-> IF body.is_for_sale = Absent THEN d.is_for_sale
                     ELSE ParseBool(body.is_for_sale),
     price |-> IF body.price = Absent THEN d.price ELSE ParsePrice(body.price),
     allow_temporary_access |->
         IF body.allow_temporary_access = Absent THEN d.allow_temporary_access
         ELSE ParseBool(body.allow_temporary_access),
     cover_image |-> IF body.cover_image = Absent THEN d.cover_image
                     ELSE body.cover_image,
     cover_image_file |-> IF body.cover_image_file = Absent THEN d.cover_image_file
                          ELSE body.cover_image_file]

\* ------------------------------------------------------------ table ops
Put(table, key, value) ==
    [k \in (DOMAIN table) \cup {key} |-> IF k = key THEN value ELSE table[k]]

Drop(table, keys) == [k \in (DOMAIN table) \ keys |-> table[k]]

\* ------------------------------------------------------------ User rows
\* BaseUserManager.normalize_email: the part after the last "@" is
\* lower-cased, the local part is kept.
NormalizeEmail(email) == IF email = "ann@X.io" THEN "ann@x.io" ELSE email

\* User.objects.create_user(username, email, password) with the model
\* defaults: balance 0.00, notifications off, 09:00.
NewUser(username, email, password) ==
    [username |-> username, email |-> NormalizeEmail(email),
     password |-> password, balance |-> 0,
     notifications_enabled |-> FALSE, notification_hour |-> 9,
     notification_minute |-> 0]

\* The two callers of Spec, as registration leaves them.
RegisteredUsers ==
    [u \in Users |-> IF u = "alice" THEN NewUser("ann", "ann@x.io", "pw")
                     ELSE NewUser("ben", "ben@x.io", "pw")]

\* ------------------------------------------------------------------ Init
Init ==
    /\ dictionaries = [k \in {} |-> 0]
    /\ words = [k \in {} |-> 0]
    /\ purchases = EmptyBag
    /\ progress = {}
    /\ nextDictId = 1
    /\ nextWordId = 1
    /\ saved = {}
    /\ pctLearned = 0
    /\ pctTotal = 0
    /\ pctResult = NoPct
    /\ users = RegisteredUsers
    /\ nextUserId = Len(UserKeys) + 1
    /\ inflight = {}

\* ------------------------------------------ DictionaryCreateView.post
\* image_url is what get_unsplash_image returns if the handler calls it.
\* It is called when the request has neither a cover file nor a cover URL,
\* and a result other than None becomes the cover_image of the data.
DictionaryCreateView_post(u, body, image_url) ==
    LET data == IF body.cover_image_file # Absent THEN body
                ELSE IF Falsy(body.cover_image) /\ image_url # None
                     THEN [body EXCEPT !.cover_image = image_url]
                     ELSE body
    IN  IF FieldsValid(data, FALSE) /\ DictionarySerializerValidate(data, FALSE)
        THEN [response |-> Response(201, {nextDictId}, NoPct),
              dictionaries |-> Put(dictionaries, nextDictId, NewDictionary(u, data))]
        ELSE [response |-> ErrorResponse(400, INVALID),
              dictionaries |-> dictionaries]

DictionaryCreate(u, body, image_url) ==
    LET o == DictionaryCreateView_post(u, body, image_url)
    IN  /\ o.response.status = 201 => nextDictId <= MaxDicts
        /\ dictionaries' = o.dictionaries
        /\ nextDictId' = IF o.response.status = 201 THEN nextDictId + 1
                         ELSE nextDictId
        /\ UNCHANGED <<words, purchases, progress, nextWordId, saved, pctVars, accounts, inflight>>

\* ------------------------------------------- DictionaryDetailView.get
DictionaryDetailView_get(u, pk) ==
    IF ~Exists(pk) THEN ErrorResponse(404, NOT_FOUND)
    ELSE IF ~IsOwner(u, pk) /\ ~HasPurchase(u, pk)
         THEN ErrorResponse(403, NO_ACCESS)
         ELSE Response(200, {pk}, NoPct)

DictionaryDetailGet(u, pk) ==
    /\ DictionaryDetailView_get(u, pk).status \in {200, 403, 404}
    /\ UNCHANGED vars

\* ------------------------------------------- DictionaryDetailView.put
\* The data the serializer gets: get_unsplash_image is called when the
\* request has neither a cover file nor a cover URL and the dictionary has
\* no cover file, and a result other than None becomes the cover_image.
UpdateData(d, body, image_url) ==
    IF body.cover_image_file # Absent THEN body
    ELSE IF Falsy(body.cover_image) /\ d.cover_image_file = NoFile
            /\ image_url # None
         THEN [body EXCEPT !.cover_image = image_url]
         ELSE body

DictionaryDetailView_put(u, pk, body, image_url) ==
    IF ~Exists(pk)
    THEN [response |-> ErrorResponse(404, NOT_FOUND), dictionaries |-> dictionaries]
    ELSE IF ~IsOwner(u, pk)
    THEN [response |-> ErrorResponse(403, "You can only update your own dictionaries."),
          dictionaries |-> dictionaries]
    ELSE LET data == UpdateData(dictionaries[pk], body, image_url)
         IN  IF ~(FieldsValid(data, TRUE) /\ DictionarySerializerValidate(data, TRUE))
             THEN [response |-> ErrorResponse(400, INVALID),
                   dictionaries |-> dictionaries]
             ELSE [response |-> Response(200, {pk}, NoPct),
                   dictionaries |-> Put(dictionaries, pk,
                                        UpdatedDictionary(dictionaries[pk], data))]

DictionaryPut(u, pk, body, image_url) ==
    /\ dictionaries' = DictionaryDetailView_put(u, pk, body, image_url).dictionaries
    /\ UNCHANGED <<words, purchases, progress, counters, saved, pctVars, accounts, inflight>>

\* ---------------------------------------- DictionaryDetailView.delete
\* dictionary.delete() cascades over the foreign keys of Word, Purchase and
\* LearningProgress, and over the learned_words rows of the deleted words.
\* Mutant: the Word rows are left behind (on_delete without CASCADE).
CascadeDelete_keepWords(pk) ==
    [dictionaries |-> Drop(dictionaries, {pk}),
     words |-> words,
     purchases |-> [p \in {x \in BagToSet(purchases) : x.dictionary # pk}
                      |-> purchases[p]],
     progress |-> {x \in progress : x.dictionary # pk}]

CascadeDelete(pk) ==
    [dictionaries |-> Drop(dictionaries, {pk}),
     words |-> Drop(words, WordsOf(pk)),
     purchases |-> [p \in {x \in BagToSet(purchases) : x.dictionary # pk}
                      |-> purchases[p]],
     progress |-> {[r EXCEPT !.learned_words = @ \ WordsOf(pk)] :
                     r \in {x \in progress : x.dictionary # pk}}]

Unchanged ==
    [dictionaries |-> dictionaries, words |-> words, purchases |-> purchases,
     progress |-> progress]

\* Mutant: delete is guarded by the read-access check of get (owner or
\* purchaser) instead of the ownership check.
DictionaryDetailView_delete_accessCheck(u, pk) ==
    IF ~Exists(pk)
    THEN [response |-> ErrorResponse(404, NOT_FOUND), store |-> Unchanged]
    ELSE IF ~IsOwner(u, pk) /\ ~HasPurchase(u, pk)
    THEN [response |-> ErrorResponse(403, "You can only delete your own dictionaries."),
          store |-> Unchanged]
    ELSE [response |-> ErrorResponse(204, NoDetail), store |-> CascadeDelete(pk)]

DictionaryDetailView_delete(u, pk) ==
    IF ~Exists(pk)
    THEN [response |-> ErrorResponse(404, NOT_FOUND), store |-> Unchanged]
    ELSE IF ~IsOwner(u, pk)
    THEN [response |-> ErrorResponse(403, "You can only delete your own dictionaries."),
          store |-> Unchanged]
    ELSE [response |-> ErrorResponse(204, NoDetail), store |-> CascadeDelete(pk)]

DictionaryDelete(u, pk) ==
    LET o == DictionaryDetailView_delete(u, pk)
    IN  /\ dictionaries' = o.store.dictionaries
        /\ words' = o.store.words
        /\ purchases' = o.store.purchases
        /\ progress' = o.store.progress
        /\ saved' = IF o.response.status = 204
                    THEN {x \in saved : x[2] # pk} ELSE saved
        /\ UNCHANGED <<counters, pctVars, accounts, inflight>>

\* ------------------------------ DictionarySerializer, computed fields
\* request.user.is_authenticated
is_authenticated(u) == u # AnonymousUser

\* DictionarySerializer.get_is_owner
get_is_owner(u, pk) ==
    IF is_authenticated(u) THEN dictionaries[pk].owner = u ELSE FALSE

\* Mutant: is_purchased is true for whoever has access, the owner included.
get_is_purchased_orOwned(u, pk) ==
    IF is_authenticated(u) THEN dictionaries[pk].owner = u \/ HasPurchase(u, pk)
    ELSE FALSE

\* DictionarySerializer.get_is_purchased
get_is_purchased(u, pk) ==
    IF is_authenticated(u) THEN HasPurchase(u, pk) ELSE FALSE

\* --------------------------------------------- DictionaryWordsView.get
\* Mutant: the purchase lookup replaces the access check instead of
\* completing it, so every caller of an existing dictionary gets the words.
DictionaryWordsView_get_noAccessCheck(u, pk) ==
    IF ~Exists(pk) THEN ErrorResponse(404, NOT_FOUND)
    ELSE Response(200, WordsOf(pk), NoPct)

\* Mutant: a purchaser's access lasts only while the dictionary is on sale.
DictionaryWordsView_get_whileOnSale(u, pk) ==
    IF ~Exists(pk) THEN ErrorResponse(404, NOT_FOUND)
    ELSE IF ~IsOwner(u, pk) /\ ~(HasPurchase(u, pk) /\ dictionaries[pk].is_for_sale)
         THEN ErrorResponse(403, NO_ACCESS)
         ELSE Response(200, WordsOf(pk), NoPct)

DictionaryWordsView_get(u, pk) ==
    IF ~Exists(pk) THEN ErrorResponse(404, NOT_FOUND)
    ELSE IF ~IsOwner(u, pk) /\ ~HasPurchase(u, pk)
         THEN ErrorResponse(403, NO_ACCESS)
         ELSE Response(200, WordsOf(pk), NoPct)

DictionaryWordsGet(u, pk) ==
    /\ DictionaryWordsView_get(u, pk).status \in {200, 403, 404}
    /\ UNCHANGED vars

\* ---------------------------------------------- DictionaryListView.get
\* Mutant: the purchased dictionaries are left out of the union.
DictionaryListView_get_ownedOnly(u) ==
    LET owned_dictionaries == {d \in DOMAIN dictionaries : dictionaries[d].owner = u}
    IN  [response |-> Response(200, owned_dictionaries, NoPct),
         rows |-> SetToBag(owned_dictionaries)]

\* owned | purchased is one query over the Dictionary table (owner = user OR
\* id IN purchased ids), so each matching row comes once; distinct() then
\* drops repeated rows.  rows is the serialized array, an id per element.
DictionaryListView_get(u) ==
    LET owned_dictionaries == {d \in DOMAIN dictionaries : dictionaries[d].owner = u}
        purchased_dictionaries_ids ==
            {p.dictionary : p \in {x \in BagToSet(purchases) : x.user = u}}
        purchased_dictionaries ==
            {d \in DOMAIN dictionaries : d \in purchased_dictionaries_ids}
        all_dictionaries == SetToBag(owned_dictionaries \cup purchased_dictionaries)
    IN  [response |-> Response(200, BagToSet(all_dictionaries), NoPct),
         rows |-> all_dictionaries]

DictionaryListGet(u) ==
    /\ DictionaryListView_get(u).response.status = 200
    /\ UNCHANGED vars

\* ------------------------------------------------- MarketplaceView.get
\* Dictionary.objects.filter(is_for_sale=True), serialized for the caller.
\* Mutant: the is_for_sale filter is missing.
MarketplaceView_get_unfiltered(u) ==
    Response(200, DOMAIN dictionaries, NoPct)

MarketplaceView_get(u) ==
    Response(200, {d \in DOMAIN dictionaries : dictionaries[d].is_for_sale}, NoPct)

MarketplaceGet(u) ==
    /\ MarketplaceView_get(u).status = 200
    /\ UNCHANGED vars

\* ------------------------- WordCreateView.post / WordSerializer.create
\* word and translation are required, non-blank fields.  The dictionary is
\* looked up with owner=request.user; Dictionary.DoesNotExist is caught
\* nowhere, so a missing or foreign dictionary ends in a server error.
WordCreateView_post(u, dictionary_id, word, translation) ==
    IF Falsy(word) \/ Falsy(translation)
    THEN [response |-> ErrorResponse(400, INVALID), words |-> words]
    ELSE IF ~(Exists(dictionary_id) /\ IsOwner(u, dictionary_id))
    THEN [response |-> ErrorResponse(500, "Dictionary matching query does not exist."),
          words |-> words]
    ELSE [response |-> Response(201, {nextWordId}, NoPct),
          words |-> Put(words, nextWordId, dictionary_id)]

WordCreate(u, dictionary_id, word, translation) ==
    LET o == WordCreateView_post(u, dictionary_id, word, translation)
    IN  /\ o.response.status = 201 => nextWordId <= MaxWords
        /\ words' = o.words
        /\ nextWordId' = IF o.response.status = 201 THEN nextWordId + 1
                         ELSE nextWordId
        /\ UNCHANGED <<dictionaries, purchases, progress, nextDictId, saved, pctVars, accounts, inflight>>

\* ------------------------------------------ PurchaseDictionaryView.post
\* Mutant: a value outside the two choices is stored as sent.
AccessType_noFallback(access_type) ==
    IF access_type = Absent THEN "permanent" ELSE access_type

AccessType(access_type) ==
    LET given == IF access_type = Absent THEN "permanent" ELSE access_type
    IN  IF given \notin {"permanent", "temporary"} THEN "permanent" ELSE given

\* Mutant: the owner check is missing.
PurchaseRejection_noOwnerCheck(u, pk, payment_code) ==
    IF Falsy(payment_code) THEN "Payment code is required."
    ELSE IF payment_code # PAYMENT_CODE THEN "Invalid payment code. Please enter 1013."
    ELSE IF ~dictionaries[pk].is_for_sale THEN "This dictionary is not for sale."
    ELSE IF HasPurchase(u, pk) THEN "You have already purchased this dictionary."
    ELSE NoDetail

\* Mutant: the already-purchased check is missing.
PurchaseRejection_noDuplicateCheck(u, pk, payment_code) ==
    IF Falsy(payment_code) THEN "Payment code is required."
    ELSE IF payment_code # PAYMENT_CODE THEN "Invalid payment code. Please enter 1013."
    ELSE IF ~dictionaries[pk].is_for_sale THEN "This dictionary is not for sale."
    ELSE IF IsOwner(u, pk) THEN "You cannot buy your own dictionary."
    ELSE NoDetail

\* Mutant: the owner check comes before the for-sale check.
PurchaseRejection_ownerFirst(u, pk, payment_code) ==
    IF Falsy(payment_code) THEN "Payment code is required."
    ELSE IF payment_code # PAYMENT_CODE THEN "Invalid payment code. Please enter 1013."
    ELSE IF IsOwner(u, pk) THEN "You cannot buy your own dictionary."
    ELSE IF ~dictionaries[pk].is_for_sale THEN "This dictionary is not for sale."
    ELSE IF HasPurchase(u, pk) THEN "You have already purchased this dictionary."
    ELSE NoDetail

\* The checks of a purchase request for an existing dictionary, in the
\* order of the code: the detail of the first one that fails, NoDetail when
\* all pass.
PurchaseRejection(u, pk, payment_code) ==
    IF Falsy(payment_code) THEN "Payment code is required."
    ELSE IF payment_code # PAYMENT_CODE THEN "Invalid payment code. Please enter 1013."
    ELSE IF ~dictionaries[pk].is_for_sale THEN "This dictionary is not for sale."
    ELSE IF IsOwner(u, pk) THEN "You cannot buy your own dictionary."
    ELSE IF HasPurchase(u, pk) THEN "You have already purchased this dictionary."
    ELSE NoDetail

PurchaseDictionaryView_post(u, pk, payment_code, access_type) ==
    IF ~Exists(pk)
    THEN [response |-> ErrorResponse(404, NOT_FOUND), purchases |-> purchases]
    ELSE IF PurchaseRejection(u, pk, payment_code) # NoDetail
    THEN [response |-> ErrorResponse(400, PurchaseRejection(u, pk, payment_code)),
          purchases |-> purchases]
    ELSE [response |-> Response(201, {pk}, NoPct),
          purchases |-> purchases (+)
              SetToBag({[user |-> u, dictionary |-> pk,
                         access_type |-> AccessType(access_type)]})]

Purchase(u, pk, payment_code, access_type) ==
    /\ purchases' = PurchaseDictionaryView_post(u, pk, payment_code, access_type).purchases
    /\ UNCHANGED <<dictionaries, words, progress, counters, saved, pctVars, accounts, inflight>>

\* ---------------------------------------------- LearningProgressView
\* LearningProgress.objects.get_or_create(user, dictionary, defaults={}).
GetOrCreate(u, pk) ==
    IF ProgressOf(u, pk) # {} THEN progress
    ELSE progress \cup {[user |-> u, dictionary |-> pk, learned_words |-> {}]}

Created(u, pk) == ProgressOf(u, pk) = {}

\* The learned_words field accepts only primary keys of existing words.
LearnedValid(learned) == learned.given => learned.ids \subseteq DOMAIN words

\* Mutant: learned_words.add(...) in place of learned_words.set(...).
SetLearned_add(table, u, pk, learned) ==
    {IF r.user = u /\ r.dictionary = pk /\ learned.given
     THEN [r EXCEPT !.learned_words = @ \cup learned.ids] ELSE r : r \in table}

\* Mutant: only the words of the progress row's dictionary are stored.
SetLearned_ownWordsOnly(table, u, pk, learned) ==
    {IF r.user = u /\ r.dictionary = pk /\ learned.given
     THEN [r EXCEPT !.learned_words = learned.ids \cap WordsOf(pk)] ELSE r :
        r \in table}

\* LearningProgressSerializer.update: learned_words.set(...) when supplied.
SetLearned(table, u, pk, learned) ==
    {IF r.user = u /\ r.dictionary = pk /\ learned.given
     THEN [r EXCEPT !.learned_words = learned.ids] ELSE r : r \in table}

\* LearningProgressSerializer(progress).data
ProgressData(table, u, pk, status) ==
    LET r == CHOOSE x \in table : x.user = u /\ x.dictionary = pk
    IN  Response(status, r.learned_words, Percentage(r))

\* Mutant: get_or_create runs before the dictionary lookup is known to have
\* succeeded, and a missing dictionary is reported as a lack of access.
LearningProgressView_get_accessFirst(u, pk) ==
    IF ~Exists(pk) \/ (~IsOwner(u, pk) /\ ~HasPurchase(u, pk))
    THEN [response |-> ErrorResponse(403, NO_ACCESS), progress |-> progress]
    ELSE [response |-> ProgressData(GetOrCreate(u, pk), u, pk, 200),
          progress |-> GetOrCreate(u, pk)]

LearningProgressView_get(u, pk) ==
    IF ~Exists(pk)
    THEN [response |-> ErrorResponse(404, NOT_FOUND), progress |-> progress]
    ELSE IF ~IsOwner(u, pk) /\ ~HasPurchase(u, pk)
    THEN [response |-> ErrorResponse(403, NO_ACCESS), progress |-> progress]
    ELSE [response |-> ProgressData(GetOrCreate(u, pk), u, pk, 200),
          progress |-> GetOrCreate(u, pk)]

\* Mutant: the access check is missing.
LearningProgressView_post_noAccessCheck(u, pk, learned) ==
    IF ~Exists(pk)
    THEN [response |-> ErrorResponse(404, NOT_FOUND), progress |-> progress]
    ELSE IF ~LearnedValid(learned)
    THEN [response |-> ErrorResponse(400, INVALID), progress |-> GetOrCreate(u, pk)]
    ELSE LET table == SetLearned(GetOrCreate(u, pk), u, pk, learned)
         IN  [response |-> ProgressData(table, u, pk,
                                        IF Created(u, pk) THEN 201 ELSE 200),
              progress |-> table]

LearningProgressView_post(u, pk, learned) ==
    IF ~Exists(pk)
    THEN [response |-> ErrorResponse(404, NOT_FOUND), progress |-> progress]
    ELSE IF ~IsOwner(u, pk) /\ ~HasPurchase(u, pk)
    THEN [response |-> ErrorResponse(403, NO_ACCESS), progress |-> progress]
    ELSE IF ~LearnedValid(learned)
    THEN [response |-> ErrorResponse(400, INVALID), progress |-> GetOrCreate(u, pk)]
    ELSE LET table == SetLearned(GetOrCreate(u, pk), u, pk, learned)
         IN  [response |-> ProgressData(table, u, pk,
                                        IF Created(u, pk) THEN 201 ELSE 200),
              progress |-> table]

ProgressGet(u, pk) ==
    LET o == LearningProgressView_get(u, pk)
    IN  /\ Cardinality(o.progress) <= MaxProgress
        /\ progress' = o.progress
        /\ UNCHANGED <<dictionaries, words, purchases, counters, saved, pctVars, accounts, inflight>>

ProgressPost(u, pk, learned) ==
    LET o == LearningProgressView_post(u, pk, learned)
    IN  /\ Cardinality(o.progress) <= MaxProgress
        /\ progress' = o.progress
        /\ saved' = IF o.response.status \in {200, 201}
                    THEN saved \cup {<<u, pk>>} ELSE saved
        /\ UNCHANGED <<dictionaries, words, purchases, counters, pctVars, accounts, inflight>>

\* ---------------------------------------------------- RegisterView.post
\* The usernames used here are unchanged by create_user's normalisation; the
\* email is stored normalised, while the lookup that precedes the insert
\* compares the email as it was sent.
RegisterView_post(username, email, password) ==
    IF Falsy(username) \/ Falsy(email) \/ Falsy(password)
    THEN [response |-> ErrorResponse(400, "Username, email and password are required."),
          users |-> users]
    ELSE IF \E i \in DOMAIN users : users[i].email = email
    THEN [response |-> ErrorResponse(400, "User with this email already exists."),
          users |-> users]
    ELSE IF \E i \in DOMAIN users : users[i].username = username
    THEN [response |-> ErrorResponse(400, "User with this username already exists."),
          users |-> users]
    ELSE [response |-> Response(201, {UserKeys[nextUserId]}, NoPct),
          users |-> Put(users, UserKeys[nextUserId],
                        NewUser(username, email, password))]

Register(username, email, password) ==
    /\ nextUserId <= Len(UserKeys)
    /\ LET o == RegisterView_post(username, email, password)
       IN  /\ users' = o.users
           /\ nextUserId' = IF o.response.status = 201 THEN nextUserId + 1
                             ELSE nextUserId
    /\ UNCHANGED <<store, counters, saved, pctVars, inflight>>

\* ------------------------------- LoginView.post / EmailAuthBackend
\* authenticate(email=..., password=...): EmailAuthBackend fetches the one
\* user with that email (MultipleObjectsReturned is caught nowhere) and
\* checks the password; ModelBackend, given no username, finds nobody.
LoginView_post(email, password) ==
    LET found == {i \in DOMAIN users : users[i].email = email}
    IN  IF Falsy(email) \/ Falsy(password) THEN ErrorResponse(400, INVALID)
        ELSE IF Cardinality(found) > 1
        THEN ErrorResponse(500, "get() returned more than one User")
        ELSE IF \E i \in found : users[i].password = password
        THEN Response(200, found, NoPct)
        ELSE ErrorResponse(400, "Invalid email or password.")

Login(email, password) ==
    /\ LoginView_post(email, password).status \in {200, 400, 500}
    /\ UNCHANGED vars

\* ------------------------------ UserProfileView / UserProfileSerializer
UserProfileView_get(u) == Response(200, {u}, NoPct)

ProfileGet(u) ==
    /\ UserProfileView_get(u).status = 200
    /\ UNCHANGED vars

\* validate_notification_hour and validate_notification_minute: the fields
\* whose supplied value is out of range.
ProfileErrors(body) ==
    {f \in {"notification_hour"} :
        body.notification_hour.given /\ ~(0 <= body.notification_hour.value
                                          /\ body.notification_hour.value <= 23)}
    \cup
    {f \in {"notification_minute"} :
        body.notification_minute.given /\ ~(0 <= body.notification_minute.value
                                            /\ body.notification_minute.value <= 59)}

\* Mutant: balance is not among the read-only fields.
UpdatedProfile_writableBalance(user, body) ==
    [user EXCEPT
        !.balance = IF body.balance = Absent THEN @ ELSE 99900,
        !.notifications_enabled =
            IF body.notifications_enabled = Absent THEN @
            ELSE ParseBool(body.notifications_enabled),
        !.notification_hour =
            IF body.notification_hour.given THEN body.notification_hour.value ELSE @,
        !.notification_minute =
            IF body.notification_minute.given THEN body.notification_minute.value ELSE @]

\* ModelSerializer.update with partial=True: id, username, email and balance
\* are read-only and dropped from the validated data; each supplied
\* notification field is set.
UpdatedProfile(user, body) ==
    [user EXCEPT
        !.notifications_enabled =
            IF body.notifications_enabled = Absent THEN @
            ELSE ParseBool(body.notifications_enabled),
        !.notification_hour =
            IF body.notification_hour.given THEN body.notification_hour.value ELSE @,
        !.notification_minute =
            IF body.notification_minute.given THEN body.notification_minute.value ELSE @]

\* Mutant: the hour is checked against 0..24.
UserProfileView_put_hourUpTo24(u, body) ==
    IF ProfileErrors(body) \ {f \in {"notification_hour"} :
                                  body.notification_hour.value = 24} # {}
    THEN [response |-> ErrorResponse(400, INVALID), errors |-> ProfileErrors(body),
          users |-> users]
    ELSE [response |-> Response(200, {u}, NoPct), errors |-> {},
          users |-> Put(users, u, UpdatedProfile(users[u], body))]

UserProfileView_put(u, body) ==
    IF ProfileErrors(body) # {}
    THEN [response |-> ErrorResponse(400, INVALID), errors |-> ProfileErrors(body),
          users |-> users]
    ELSE [response |-> Response(200, {u}, NoPct), errors |-> {},
          users |-> Put(users, u, UpdatedProfile(users[u], body))]

ProfilePut(u, body) ==
    /\ users' = UserProfileView_put(u, body).users
    /\ UNCHANGED <<store, counters, saved, pctVars, nextUserId, inflight>>

\* ------------------------------------- authentication and permissions
\* What a request carries in its Authorization header: nothing, a token
\* that does not validate, or the valid token of a user.
Credentials ==
    {[token |-> Absent, user |-> AnonymousUser],
     [token |-> "expired", user |-> AnonymousUser]}
    \cup {[token |-> "valid", user |-> u] : u \in Users}

Operations ==
    {"register", "login", "profile_get", "profile_put", "dictionary_create",
     "dictionary_list", "marketplace", "dictionary_get", "dictionary_put",
     "dictionary_delete", "dictionary_words", "purchase", "word_create",
     "progress_get", "progress_post", "progress_put"}

\* permission_classes of the view; every view authenticates with
\* JWTAuthentication, by its own attribute or by the default of settings.py.
permission_classes(op) ==
    IF op \in {"register", "login", "marketplace"} THEN "AllowAny"
    ELSE "IsAuthenticated"

Passed == ErrorResponse(0, NoDetail)

\* APIView.initial: JWTAuthentication.authenticate returns nobody when there
\* is no header and raises when the token does not validate; then the
\* permission is checked.
Initial(op, credentials) ==
    IF credentials.token \notin {Absent, "valid"}
    THEN ErrorResponse(401, "Given token not valid for any token type")
    ELSE IF credentials.token = Absent /\ permission_classes(op) = "IsAuthenticated"
    THEN ErrorResponse(401, "Authentication credentials were not provided.")
    ELSE Passed

Unauthorized(op, credentials) ==
    /\ Initial(op, credentials).status = 401
    /\ UNCHANGED vars

\* The stored tables, as a request finds them.
Current ==
    [dictionaries |-> dictionaries, words |-> words, purchases |-> purchases,
     progress |-> progress, users |-> users]

EmptyBody ==
    [name |-> Absent, description |-> Absent, is_for_sale |-> Absent,
     price |-> Absent, allow_temporary_access |-> Absent,
     cover_image |-> Absent, cover_image_file |-> Absent, owner |-> Absent]

NoRequest ==
    [pk |-> 1, body |-> EmptyBody, word |-> Absent, translation |-> Absent,
     payment_code |-> Absent, access_type |-> Absent,
     learned |-> [given |-> FALSE, ids |-> {}],
     profile |-> [notifications_enabled |-> Absent, notification_hour |-> NoInteger,
                  notification_minute |-> NoInteger, username |-> Absent,
                  email |-> Absent, balance |-> Absent],
     username |-> Absent, email |-> Absent, password |-> Absent]

\* The requests an operation can be sent.
RequestsOf(op) ==
    CASE op \in {"dictionary_get", "dictionary_delete", "dictionary_words",
                 "progress_get"} ->
            {[NoRequest EXCEPT !.pk = pk] : pk \in DictIds}
      [] op = "dictionary_create" ->
            {[NoRequest EXCEPT !.body = b] : b \in DictionaryBodies}
      [] op = "dictionary_put" ->
            {[NoRequest EXCEPT !.pk = pk, !.body = b] :
                pk \in DictIds, b \in DictionaryBodies}
      [] op = "purchase" ->
            {[NoRequest EXCEPT !.pk = pk, !.payment_code = c, !.access_type = a] :
                pk \in DictIds, c \in PaymentInputs, a \in AccessInputs}
      [] op = "word_create" ->
            {[NoRequest EXCEPT !.pk = pk, !.word = w, !.translation = t] :
                pk \in DictIds, w \in WordInputs, t \in WordInputs}
      [] op \in {"progress_post", "progress_put"} ->
            {[NoRequest EXCEPT !.pk = pk, !.learned = l] :
                pk \in DictIds, l \in LearnedInputs}
      [] op = "profile_put" ->
            {[NoRequest EXCEPT !.profile = b] : b \in ProfileBodies}
      [] op = "register" ->
            {[NoRequest EXCEPT !.username = n, !.email = e, !.password = p] :
                n \in UsernameInputs, e \in EmailInputs, p \in PasswordInputs}
      [] op = "login" ->
            {[NoRequest EXCEPT !.email = e, !.password = p] :
                e \in EmailInputs, p \in PasswordInputs}
      [] OTHER -> {NoRequest}

\* The handler of the operation run for user u: its response and the tables
\* as it leaves them.
Handle(op, u, rq) ==
    CASE op = "register" ->
            LET o == RegisterView_post(rq.username, rq.email, rq.password)
            IN  [response |-> o.response, state |-> [Current EXCEPT !.users = o.users]]
      [] op = "login" ->
            [response |-> LoginView_post(rq.email, rq.password), state |-> Current]
      [] op = "profile_get" ->
            [response |-> UserProfileView_get(u), state |-> Current]
      [] op = "profile_put" ->
            LET o == UserProfileView_put(u, rq.profile)
            IN  [response |-> o.response, state |-> [Current EXCEPT !.users = o.users]]
      [] op = "dictionary_create" ->
            LET o == DictionaryCreateView_post(u, rq.body, None)
            IN  [response |-> o.response,
                 state |-> [Current EXCEPT !.dictionaries = o.dictionaries]]
      [] op = "dictionary_list" ->
            [response |-> DictionaryListView_get(u).response, state |-> Current]
      [] op = "marketplace" ->
            [response |-> MarketplaceView_get(u), state |-> Current]
      [] op = "dictionary_get" ->
            [response |-> DictionaryDetailView_get(u, rq.pk), state |-> Current]
      [] op = "dictionary_put" ->
            LET o == DictionaryDetailView_put(u, rq.pk, rq.body, None)
            IN  [response |-> o.response,
                 state |-> [Current EXCEPT !.dictionaries = o.dictionaries]]
      [] op = "dictionary_delete" ->
            LET o == DictionaryDetailView_delete(u, rq.pk)
            IN  [response |-> o.response,
                 state |-> [Current EXCEPT !.dictionaries = o.store.dictionaries,
                                           !.words = o.store.words,
                                           !.purchases = o.store.purchases,
                                           !.progress = o.store.progress]]
      [] op = "dictionary_words" ->
            [response |-> DictionaryWordsView_get(u, rq.pk), state |-> Current]
      [] op = "purchase" ->
            LET o == PurchaseDictionaryView_post(u, rq.pk, rq.payment_code,
                                                 rq.access_type)
            IN  [response |-> o.response,
                 state |-> [Current EXCEPT !.purchases = o.purchases]]
      [] op = "word_create" ->
            LET o == WordCreateView_post(u, rq.pk, rq.word, rq.translation)
            IN  [response |-> o.response, state |-> [Current EXCEPT !.words = o.words]]
      [] op = "progress_get" ->
            LET o == LearningProgressView_get(u, rq.pk)
            IN  [response |-> o.response,
                 state |-> [Current EXCEPT !.progress = o.progress]]
      [] op \in {"progress_post", "progress_put"} ->
            LET o == LearningProgressView_post(u, rq.pk, rq.learned)
            IN  [response |-> o.response,
                 state |-> [Current EXCEPT !.progress = o.progress]]

\* APIView.dispatch: the handler runs only when initial() raised nothing.
Dispatch(op, credentials, rq) ==
    IF Initial(op, credentials).status = 401
    THEN [response |-> Initial(op, credentials), state |-> Current]
    ELSE Handle(op, credentials.user, rq)

\* ------------------------------------------------------------------ Next
\* The image lookup of Spec finds nothing (None), as it does without a key
\* for the service.
Next ==
    \/ \E u \in Users, body \in DictionaryBodies : DictionaryCreate(u, body, None)
    \/ \E u \in Users, pk \in DictIds : DictionaryDetailGet(u, pk)
    \/ \E u \in Users, pk \in DictIds, body \in DictionaryBodies :
          DictionaryPut(u, pk, body, None)
    \/ \E u \in Users, pk \in DictIds : DictionaryDelete(u, pk)
    \/ \E u \in Users, pk \in DictIds : DictionaryWordsGet(u, pk)
    \/ \E u \in Users : DictionaryListGet(u)
    \/ \E u \in Users \cup {AnonymousUser} : MarketplaceGet(u)
    \/ \E op \in Operations, c \in Credentials : Unauthorized(op, c)
    \/ \E u \in Users, pk \in DictIds, w \in WordInputs, t \in WordInputs :
          WordCreate(u, pk, w, t)
    \/ \E u \in Users, pk \in DictIds, c \in PaymentInputs, a \in AccessInputs :
          Purchase(u, pk, c, a)
    \/ \E u \in Users, pk \in DictIds : ProgressGet(u, pk)
    \/ \E u \in Users, pk \in DictIds, l \in LearnedInputs : ProgressPost(u, pk, l)

Spec == Init /\ [][Next]_vars

\* ------------------------------------- get_progress_percentage alone
\* The function applied to every pair of counts within the bounds, and
\* re-applied as the learned count rises for a fixed total.
InitPct ==
    /\ dictionaries = [k \in {} |-> 0]
    /\ words = [k \in {} |-> 0]
    /\ purchases = EmptyBag
    /\ progress = {}
    /\ nextDictId = 1
    /\ nextWordId = 1
    /\ saved = {}
    /\ pctLearned \in 0..MaxLearned
    /\ pctTotal \in 0..MaxTotal
    /\ pctResult = NoPct
    /\ users = RegisteredUsers
    /\ nextUserId = Len(UserKeys) + 1
    /\ inflight = {}

ComputePercentage ==
    /\ pctResult = NoPct
    /\ pctResult' = get_progress_percentage(pctLearned, pctTotal)
    /\ UNCHANGED <<store, counters, saved, accounts, inflight, pctLearned, pctTotal>>

LearnOneMore ==
    /\ pctResult # NoPct
    /\ pctLearned < MaxLearned
    /\ pctLearned' = pctLearned + 1
    /\ pctResult' = get_progress_percentage(pctLearned + 1, pctTotal)
    /\ UNCHANGED <<store, counters, saved, accounts, inflight, pctTotal>>

NextPct == ComputePercentage \/ LearnOneMore

PctSpec == InitPct /\ [][NextPct]_vars

\* --------------------------------------- accounts, listings and purchases
\* Registration from an empty User table, profile updates, and priced
\* dictionaries put on sale and bought.
MaxListed == 1

InitAccount ==
    /\ dictionaries = [k \in {} |-> 0]
    /\ words = [k \in {} |-> 0]
    /\ purchases = EmptyBag
    /\ progress = {}
    /\ nextDictId = 1
    /\ nextWordId = 1
    /\ saved = {}
    /\ pctLearned = 0
    /\ pctTotal = 0
    /\ pctResult = NoPct
    /\ users = [k \in {} |-> 0]
    /\ nextUserId = 1
    /\ inflight = {}

ListDictionary(u, body, image_url) ==
    /\ nextDictId <= MaxListed
    /\ DictionaryCreate(u, body, image_url)

NextAccount ==
    \/ \E n \in UsernameInputs, e \in EmailInputs, p \in PasswordInputs :
          Register(n, e, p)
    \/ \E e \in EmailInputs, p \in PasswordInputs : Login(e, p)
    \/ \E u \in DOMAIN users : ProfileGet(u)
    \/ \E u \in DOMAIN users, body \in ProfileBodies : ProfilePut(u, body)
    \/ \E u \in DOMAIN users, body \in PricedBodies : ListDictionary(u, body, None)
    \/ \E u \in DOMAIN users, pk \in DictIds, c \in PaymentInputs, a \in AccessInputs :
          Purchase(u, pk, c, a)

AccountSpec == InitAccount /\ [][NextAccount]_vars

\* ------------------------------------------ covers and the image lookup
\* One dictionary created and updated with requests that set the cover, the
\* price and owner, under every result of the image lookup; it is bought,
\* studied and deleted.
NextCover ==
    \/ \E u \in Users, body \in CoverBodies, image_url \in UnsplashResults :
          ListDictionary(u, body, image_url)
    \/ \E u \in Users, pk \in DictIds, body \in CoverBodies,
          image_url \in UnsplashResults : DictionaryPut(u, pk, body, image_url)
    \/ \E u \in Users, pk \in DictIds : DictionaryDelete(u, pk)
    \/ \E u \in Users, pk \in DictIds, c \in PaymentInputs, a \in AccessInputs :
          Purchase(u, pk, c, a)
    \/ \E u \in Users, pk \in DictIds, l \in LearnedInputs : ProgressPost(u, pk, l)

CoverSpec == Init /\ [][NextCover]_vars

\* ------------------------------ LearningProgressView, step by step
\* The progress handlers with get_or_create taken apart into its queries
\* (QuerySet.get, then QuerySet.create under the unique_together constraint),
\* so that requests handled at the same time interleave between them.
MaxInflight == 2
RequestIds == 1..MaxInflight
RaceLearnedInputs ==
    {[given |-> FALSE, ids |-> {}], [given |-> TRUE, ids |-> {}],
     [given |-> TRUE, ids |-> {1}]}

\* alice owns dictionary 1, on sale with one word; bob has bought it or not.
InitRace ==
    /\ dictionaries =
          Put([k \in {} |-> 0], 1,
              NewDictionary("alice",
                  [name |-> "Animals", description |-> "Zoo", is_for_sale |-> "true",
                   price |-> Absent, allow_temporary_access |-> Absent,
                   cover_image |-> Absent, cover_image_file |-> Absent,
                   owner |-> Absent]))
    /\ words = [k \in {1} |-> 1]
    /\ purchases \in {EmptyBag,
                      SetToBag({[user |-> "bob", dictionary |-> 1,
                                 access_type |-> "permanent"]})}
    /\ progress = {}
    /\ nextDictId = 2
    /\ nextWordId = 2
    /\ saved = {}
    /\ pctLearned = 0
    /\ pctTotal = 0
    /\ pctResult = NoPct
    /\ users = RegisteredUsers
    /\ nextUserId = Len(UserKeys) + 1
    /\ inflight = {}

\* Dictionary.objects.get(pk=dictionary_id) and the access check: a request
\* answered 404 or 403 ends here, any other goes on to get_or_create.
BeginProgress(id, u, pk, method, learned) ==
    /\ \A r \in inflight : r.id # id
    /\ inflight' =
          IF Exists(pk) /\ (IsOwner(u, pk) \/ HasPurchase(u, pk))
          THEN inflight \cup {[id |-> id, user |-> u, dictionary |-> pk,
                                method |-> method, learned |-> learned,
                                pc |-> "get", created |-> FALSE]}
          ELSE inflight
    /\ UNCHANGED <<store, counters, saved, pctVars, accounts>>

\* get_or_create, first query: self.get(user=..., dictionary=...).
LookupProgress(r) ==
    /\ r.pc = "get"
    /\ inflight' = (inflight \ {r}) \cup
          {[r EXCEPT !.pc = IF ProgressOf(r.user, r.dictionary) # {}
                            THEN "respond" ELSE "create"]}
    /\ UNCHANGED <<store, counters, saved, pctVars, accounts>>

\* Mutant: no unique_together constraint, the insert always goes through.
InsertProgress_noUniqueConstraint(u, pk) ==
    progress \cup {[user |-> u, dictionary |-> pk, learned_words |-> {}]}

\* get_or_create, second query: self.create(...).  The unique_together
\* constraint turns the insert of a second row for the pair into an
\* IntegrityError, after which the existing row is fetched.
InsertProgress(u, pk) ==
    IF ProgressOf(u, pk) # {} THEN progress
    ELSE progress \cup {[user |-> u, dictionary |-> pk, learned_words |-> {}]}

CreateProgress(r) ==
    /\ r.pc = "create"
    /\ progress' = InsertProgress(r.user, r.dictionary)
    /\ inflight' = (inflight \ {r}) \cup
          {[r EXCEPT !.pc = "respond",
                     !.created = (ProgressOf(r.user, r.dictionary) = {})]}
    /\ UNCHANGED <<dictionaries, words, purchases, counters, saved, pctVars, accounts>>

\* The rest of the handler: GET serializes the row; POST validates, sets the
\* learned words and answers 201 if this request created the row, else 200.
RespondProgress(r) ==
    /\ r.pc = "respond"
    /\ progress' = IF r.method = "POST" /\ LearnedValid(r.learned)
                    THEN SetLearned(progress, r.user, r.dictionary, r.learned)
                    ELSE progress
    /\ saved' = IF r.method = "POST" /\ LearnedValid(r.learned)
                 THEN saved \cup {<<r.user, r.dictionary>>} ELSE saved
    /\ inflight' = inflight \ {r}
    /\ UNCHANGED <<dictionaries, words, purchases, counters, pctVars, accounts>>

NextRace ==
    \/ \E id \in RequestIds, u \in Users, pk \in DictIds :
          \/ BeginProgress(id, u, pk, "GET", [given |-> FALSE, ids |-> {}])
          \/ \E l \in RaceLearnedInputs : BeginProgress(id, u, pk, "POST", l)
    \/ \E r \in inflight : LookupProgress(r)
    \/ \E r \in inflight : CreateProgress(r)
    \/ \E r \in inflight : RespondProgress(r)

ProgressRaceSpec == InitRace /\ [][NextRace]_vars

\* ------------------------------ PurchaseDictionaryView.post, step by step
\* The purchase handler taken apart at its last two queries: the checks up
\* to Purchase.objects.filter(...).exists(), then Purchase.objects.create.
\* No transaction or lock spans the two, so requests handled at the same
\* time interleave between them.
\* alice owns dictionary 1 and bob dictionary 2, both on sale.
InitPurchaseRace ==
    /\ dictionaries =
          [pk \in DictIds |->
              NewDictionary(IF pk = 1 THEN "alice" ELSE "bob",
                  [name |-> "Animals", description |-> "Zoo", is_for_sale |-> "true",
                   price |-> Absent, allow_temporary_access |-> Absent,
                   cover_image |-> Absent, cover_image_file |-> Absent,
                   owner |-> Absent])]
    /\ words = [k \in {} |-> 0]
    /\ purchases = EmptyBag
    /\ progress = {}
    /\ nextDictId = MaxDicts + 1
    /\ nextWordId = 1
    /\ saved = {}
    /\ pctLearned = 0
    /\ pctTotal = 0
    /\ pctResult = NoPct
    /\ users = RegisteredUsers
    /\ nextUserId = Len(UserKeys) + 1
    /\ inflight = {}

\* Dictionary.objects.get(pk=pk) and the five checks: a request answered 404
\* or 400 ends here, any other goes on to the insert.
CheckPurchase(id, u, pk, payment_code, access_type) ==
    /\ \A r \in inflight : r.id # id
    /\ inflight' =
          IF Exists(pk) /\ PurchaseRejection(u, pk, payment_code) = NoDetail
          THEN inflight \cup {[id |-> id, user |-> u, dictionary |-> pk,
                                access_type |-> AccessType(access_type),
                                pc |-> "create"]}
          ELSE inflight
    /\ UNCHANGED <<store, counters, saved, pctVars, accounts>>

\* Mutant: a unique constraint on (user, dictionary) turns the insert of a
\* second row for the pair into an IntegrityError.
InsertPurchase_uniqueTogether(u, pk, access_type) ==
    IF HasPurchase(u, pk) THEN purchases
    ELSE purchases (+) SetToBag({[user |-> u, dictionary |-> pk,
                                  access_type |-> access_type]})

\* Purchase.objects.create(user, dictionary, access_type): the Purchase
\* model declares no constraint over (user, dictionary), so the row is
\* inserted whatever the table holds.
InsertPurchase(u, pk, access_type) ==
    purchases (+) SetToBag({[user |-> u, dictionary |-> pk,
                             access_type |-> access_type]})

\* The insert and the 201 response.
CreatePurchase(r) ==
    /\ r.pc = "create"
    /\ purchases' = InsertPurchase(r.user, r.dictionary, r.access_type)
    /\ inflight' = inflight \ {r}
    /\ UNCHANGED <<dictionaries, words, progress, counters, saved, pctVars, accounts>>

NextPurchaseRace ==
    \/ \E id \in RequestIds, u \in Users, pk \in DictIds,
          c \in PaymentInputs, a \in AccessInputs : CheckPurchase(id, u, pk, c, a)
    \/ \E r \in inflight : CreatePurchase(r)

PurchaseRaceSpec == InitPurchaseRace /\ [][NextPurchaseRace]_vars

\* =================================================================
\* Properties
\* =================================================================
\* Read straight off the tables, independently of the handlers' lookups.
Buys(u, pk) ==
    {p \in DOMAIN purchases : p.user = u /\ p.dictionary = pk /\ purchases[p] > 0}

Copies(u, pk) ==
    CopiesIn([user |-> u, dictionary |-> pk, access_type |-> "permanent"], purchases)
    + CopiesIn([user |-> u, dictionary |-> pk, access_type |-> "temporary"], purchases)

CanAccess(u, pk) == dictionaries[pk].owner = u \/ Buys(u, pk) # {}

Granted(r) == r.status \in {200, 201} /\ r.hasData

Forbidden(r) == r.status = 403 /\ ~r.hasData

\* C1 as stated: for every user and existing dictionary, the detail GET, the
\* word listing, the progress GET and the progress POST (whatever its
\* learned_words) answer 2xx with data iff the user is the owner or holds a
\* Purchase, and answer 403 without data otherwise.
C1_AccessIffOwnerOrPurchaser_AsStated ==
    \A u \in Users, pk \in DOMAIN dictionaries :
        /\ Granted(DictionaryDetailView_get(u, pk)) <=> CanAccess(u, pk)
        /\ Granted(DictionaryWordsView_get(u, pk)) <=> CanAccess(u, pk)
        /\ Granted(LearningProgressView_get(u, pk).response) <=> CanAccess(u, pk)
        /\ \A l \in LearnedInputs :
              Granted(LearningProgressView_post(u, pk, l).response) <=> CanAccess(u, pk)
        /\ ~CanAccess(u, pk) =>
              /\ Forbidden(DictionaryDetailView_get(u, pk))
              /\ Forbidden(DictionaryWordsView_get(u, pk))
              /\ Forbidden(LearningProgressView_get(u, pk).response)
              /\ \A l \in LearnedInputs :
                    Forbidden(LearningProgressView_post(u, pk, l).response)

\* C1 (amended): the three GETs answer 200 with data iff the user is the
\* owner or holds a Purchase; the progress POST answers 2xx with data iff, in
\* addition, every supplied learned_words id names an existing word (an
\* entitled caller with an unknown id gets 400 without data); a caller who is
\* neither owner nor purchaser gets 403 without data from all four, and the
\* progress table is left as it was.
C1_AccessIffOwnerOrPurchaser ==
    \A u \in Users, pk \in DOMAIN dictionaries :
        /\ Granted(DictionaryDetailView_get(u, pk)) <=> CanAccess(u, pk)
        /\ DictionaryDetailView_get(u, pk).status = 200 =>
              DictionaryDetailView_get(u, pk).list = {pk}
        /\ Granted(DictionaryWordsView_get(u, pk)) <=> CanAccess(u, pk)
        /\ Granted(LearningProgressView_get(u, pk).response) <=> CanAccess(u, pk)
        /\ \A l \in LearnedInputs :
              LET r == LearningProgressView_post(u, pk, l).response
                  known == l.given => l.ids \subseteq DOMAIN words
              IN  /\ Granted(r) <=> (CanAccess(u, pk) /\ known)
                  /\ (CanAccess(u, pk) /\ ~known) => (r.status = 400 /\ ~r.hasData)
        /\ ~CanAccess(u, pk) =>
              /\ Forbidden(DictionaryDetailView_get(u, pk))
              /\ Forbidden(DictionaryWordsView_get(u, pk))
              /\ Forbidden(LearningProgressView_get(u, pk).response)
              /\ LearningProgressView_get(u, pk).progress = progress
              /\ \A l \in LearnedInputs :
                    /\ Forbidden(LearningProgressView_post(u, pk, l).response)
                    /\ LearningProgressView_post(u, pk, l).progress = progress

\* A purchaser with a progress row on a dictionary that has a word, next to a
\* dictionary the same user can not access.
C1_Witness ==
    \E u \in Users, pk \in DOMAIN dictionaries, other \in DOMAIN dictionaries :
        /\ dictionaries[pk].owner # u /\ Buys(u, pk) # {}
        /\ ProgressOf(u, pk) # {} /\ WordsOf(pk) # {}
        /\ ~CanAccess(u, other)

\* C2 as stated: after any sequence of creates and updates, every stored
\* for-sale dictionary has a non-empty name and a non-empty description (a
\* request that would store one without them being answered 400 instead).
C2_ForSaleHasNameAndDescription ==
    \A d \in DOMAIN dictionaries :
        dictionaries[d].is_for_sale =>
            (dictionaries[d].name # "" /\ dictionaries[d].description # "")

\* The four preconditions of a purchase, read off the tables.
MayPurchase(u, pk, payment_code) ==
    /\ payment_code = "1013"
    /\ dictionaries[pk].is_for_sale
    /\ dictionaries[pk].owner # u
    /\ Copies(u, pk) = 0

PurchaseRows(u, pk) ==
    {[user |-> u, dictionary |-> pk, access_type |-> a] :
        a \in {"permanent", "temporary"}}

\* C3, per request: a purchase request for an existing dictionary answers 201
\* and adds exactly one Purchase row for (u, d) when the four preconditions
\* hold, and answers 400 leaving Purchases as they were when any one fails.
C3_PurchaseRequest ==
    \A u \in Users, pk \in DOMAIN dictionaries,
       c \in PaymentInputs, a \in AccessInputs :
        LET o == PurchaseDictionaryView_post(u, pk, c, a)
        IN  IF MayPurchase(u, pk, c)
            THEN /\ o.response.status = 201
                 /\ \E row \in PurchaseRows(u, pk) :
                       o.purchases = purchases (+) SetToBag({row})
            ELSE /\ o.response.status = 400
                 /\ ~o.response.hasData
                 /\ o.purchases = purchases

\* C3, per step: whenever a Purchase row gains a copy, the four preconditions
\* held for its user and dictionary before the step, and the step changed
\* neither Dictionaries nor Words nor LearningProgress.
C3_PurchaseStep ==
    \A row \in DOMAIN purchases' :
        CopiesIn(row, purchases') > CopiesIn(row, purchases) =>
            /\ row.dictionary \in DOMAIN dictionaries
            /\ MayPurchase(row.user, row.dictionary, "1013")
            /\ purchases' = purchases (+) SetToBag({row})
            /\ UNCHANGED <<dictionaries, words, progress>>

\* C3: a purchase creates a Purchase record only when the payment code is the
\* sentinel, the dictionary is for sale, the buyer is not the owner and no
\* Purchase for the pair exists; otherwise it answers 400 and the store is
\* unchanged.
C3_PurchaseOnlyWhenAllFourHold == []C3_PurchaseRequest /\ [][C3_PurchaseStep]_vars

\* A purchase has been made, and each single precondition is violated by some
\* request in this state (wrong code, not for sale, own dictionary, repeat).
C3_Witness ==
    /\ \E u \in Users, pk \in DOMAIN dictionaries :
          Copies(u, pk) = 1 /\ dictionaries[pk].is_for_sale
    /\ \E pk \in DOMAIN dictionaries : ~dictionaries[pk].is_for_sale

C5_OnlyOwnerModifies ==
    \A u \in Users, pk \in DOMAIN dictionaries :
        dictionaries[pk].owner # u =>
            /\ \A body \in DictionaryBodies :
                  LET o == DictionaryDetailView_put(u, pk, body, None)
                  IN  /\ o.response.status = 403
                      /\ ~o.response.hasData
                      /\ o.dictionaries = dictionaries
            /\ LET o == DictionaryDetailView_delete(u, pk)
               IN  /\ o.response.status = 403
                   /\ o.store.dictionaries = dictionaries
                   /\ o.store.words = words
                   /\ o.store.purchases = purchases
                   /\ o.store.progress = progress

\* A purchaser of a dictionary that has a word and a progress row.
C5_Witness ==
    \E u \in Users, pk \in DOMAIN dictionaries :
        /\ dictionaries[pk].owner # u /\ Copies(u, pk) = 1
        /\ WordsOf(pk) # {} /\ ProgressOf(u, pk) # {}

\* The answers of the six operations gated by an access or ownership check,
\* for every request body.
GatedResponses(u, pk) ==
    {DictionaryDetailView_get(u, pk), DictionaryWordsView_get(u, pk),
     DictionaryDetailView_delete(u, pk).response,
     LearningProgressView_get(u, pk).response}
    \cup {DictionaryDetailView_put(u, pk, body, None).response : body \in DictionaryBodies}
    \cup {LearningProgressView_post(u, pk, l).response : l \in LearnedInputs}

PurchaseResponses(u, pk) ==
    {PurchaseDictionaryView_post(u, pk, c, a).response :
        c \in PaymentInputs, a \in AccessInputs}

\* A request naming a dictionary id that does not exist answers 404 from every
\* one of the seven operations, whatever the caller and the body, and changes
\* no table.
MissingIs404 ==
    \A u \in Users, pk \in DictIds \ DOMAIN dictionaries :
        /\ \A r \in GatedResponses(u, pk) \cup PurchaseResponses(u, pk) :
              r.status = 404 /\ ~r.hasData
        /\ \A body \in DictionaryBodies :
              DictionaryDetailView_put(u, pk, body, None).dictionaries = dictionaries
        /\ DictionaryDetailView_delete(u, pk).store = Unchanged
        /\ \A c \in PaymentInputs, a \in AccessInputs :
              PurchaseDictionaryView_post(u, pk, c, a).purchases = purchases
        /\ LearningProgressView_get(u, pk).progress = progress
        /\ \A l \in LearnedInputs :
              LearningProgressView_post(u, pk, l).progress = progress

\* C6 as stated: the seven operations answer 404 for a missing dictionary, and
\* all seven, purchase included, answer 403 for an existing dictionary the
\* caller may not access.
C6_ExistenceCheckFirst_AsStated ==
    /\ MissingIs404
    /\ \A u \in Users, pk \in DOMAIN dictionaries :
          ~CanAccess(u, pk) =>
              \A r \in GatedResponses(u, pk) \cup PurchaseResponses(u, pk) :
                  r.status = 403

\* C6 (amended): the seven operations answer 404 for a missing dictionary,
\* whatever the caller and body; for an existing dictionary the caller may not
\* access, the detail GET/PUT/DELETE, the word listing and the progress
\* GET/POST answer 403, and the purchase, which has no access check, answers
\* 201 or 400, never 404 or 403.
C6_ExistenceCheckFirst ==
    /\ MissingIs404
    /\ \A u \in Users, pk \in DOMAIN dictionaries :
          /\ ~CanAccess(u, pk) =>
                \A r \in GatedResponses(u, pk) : r.status = 403
          /\ \A r \in PurchaseResponses(u, pk) : r.status \in {201, 400}

\* A deleted dictionary id beside an existing dictionary that one user can
\* not access.
C6_Witness ==
    /\ \E pk \in DictIds : pk < nextDictId /\ pk \notin DOMAIN dictionaries
    /\ \E u \in Users, pk \in DOMAIN dictionaries : ~CanAccess(u, pk)

OnSale(d) == d \in DOMAIN dictionaries /\ dictionaries[d].is_for_sale

\* C7: the marketplace answers every caller 200 with exactly the dictionaries
\* whose is_for_sale flag is true, whoever owns them; holding in every state,
\* this makes a dictionary enter or leave the listing exactly in the steps
\* that set its flag to true or to false.
C7_MarketplaceIsForSaleSet ==
    \A u \in Users :
        /\ MarketplaceView_get(u).status = 200
        /\ MarketplaceView_get(u).hasData
        /\ \A d \in DictIds : d \in MarketplaceView_get(u).list <=> OnSale(d)

\* Two dictionaries of different owners, one on sale and one not.
C7_Witness ==
    \E d, e \in DOMAIN dictionaries :
        /\ dictionaries[d].owner # dictionaries[e].owner
        /\ dictionaries[d].is_for_sale /\ ~dictionaries[e].is_for_sale

\* C8 as stated: a progress save answers 201 exactly when no save for the
\* (user, dictionary) pair has succeeded before, whatever else happened to the
\* pair (progress reads included), and 200 otherwise.
C8_CreatedOnlyOnFirstSave ==
    \A u \in Users, pk \in DOMAIN dictionaries, l \in LearnedInputs :
        LET r == LearningProgressView_post(u, pk, l).response
        IN  r.status \in {200, 201} => (r.status = 201 <=> <<u, pk>> \notin saved)

\* C9 as stated: the progress percentage of every LearningProgress row lies in
\* 0..100.
C9_PercentageWithin0To100 ==
    \A r \in progress : Percentage(r) \in 0..100

\* C10, per result: 0 for a dictionary without words, otherwise an integer
\* nearest to 100 * learned / total (a tie may go either way); 1 of 2 gives 50
\* and 2 of 2 gives 100.
C10_Nearest ==
    pctResult # NoPct =>
        /\ pctTotal = 0 => pctResult = 0
        /\ pctTotal > 0 =>
              LET diff == 100 * pctLearned - pctTotal * pctResult
              IN  2 * (IF diff < 0 THEN -diff ELSE diff) <= pctTotal
        /\ (pctLearned = 1 /\ pctTotal = 2) => pctResult = 50
        /\ (pctLearned = 2 /\ pctTotal = 2) => pctResult = 100

\* C10, per step: for a fixed total the result does not decrease when the
\* learned count rises.
C10_Monotone ==
    (pctResult # NoPct /\ pctTotal' = pctTotal /\ pctLearned' >= pctLearned) =>
        pctResult' >= pctResult

\* C10: get_progress_percentage is 0 without words, else the rounded
\* percentage, and non-decreasing in the learned count.
C10_RoundedPercentage == []C10_Nearest /\ [][C10_Monotone]_vars

\* A tie (1 of 8 is 12.5) has been rounded after the learned count rose.
C10_Witness ==
    pctLearned = 1 /\ pctTotal = 8 /\ pctResult = 12

\* Every Word, Purchase and LearningProgress row names an existing dictionary,
\* and every learned word is an existing Word.
ReferencesExist ==
    /\ \A w \in DOMAIN words : words[w] \in DOMAIN dictionaries
    /\ \A p \in DOMAIN purchases : p.dictionary \in DOMAIN dictionaries
    /\ \A r \in progress :
          r.dictionary \in DOMAIN dictionaries /\ r.learned_words \subseteq DOMAIN words

\* The rows that belong to dictionary e in the store s, learned words of
\* dictionary pk left aside.
RowsOf(s, e, pk) ==
    [dictionary |-> s.dictionaries[e],
     words |-> {w \in DOMAIN s.words : s.words[w] = e},
     purchases |-> {<<p, s.purchases[p]>> : p \in {x \in DOMAIN s.purchases : x.dictionary = e}},
     progress |-> {[r EXCEPT !.learned_words =
                        {w \in @ : w \notin DOMAIN words \/ words[w] # pk}] :
                      r \in {x \in s.progress : x.dictionary = e}}]

\* C11: the owner's DELETE of a dictionary answers 204 and leaves no Word,
\* Purchase or LearningProgress row of that dictionary and no learned-word set
\* holding one of its words, the rows of every other dictionary staying as
\* they were; and in every state every Word, Purchase and LearningProgress
\* row names an existing dictionary.
C11_DeleteCascades ==
    /\ ReferencesExist
    /\ \A pk \in DOMAIN dictionaries :
          LET o == DictionaryDetailView_delete(dictionaries[pk].owner, pk)
              gone == {w \in DOMAIN words : words[w] = pk}
          IN  /\ o.response.status = 204
              /\ DOMAIN o.store.dictionaries = DOMAIN dictionaries \ {pk}
              /\ DOMAIN o.store.words = DOMAIN words \ gone
              /\ \A w \in DOMAIN o.store.words : o.store.words[w] = words[w]
              /\ \A p \in DOMAIN o.store.purchases : p.dictionary # pk
              /\ \A r \in o.store.progress :
                    r.dictionary # pk /\ r.learned_words \cap gone = {}
              /\ \A e \in DOMAIN dictionaries \ {pk} :
                    RowsOf(o.store, e, pk) = RowsOf(Unchanged, e, pk)

\* A word has gone with its dictionary while another dictionary keeps its
\* word, its purchase and its progress row.
C11_Witness ==
    /\ \E w \in WordIds : w < nextWordId /\ w \notin DOMAIN words
    /\ \E e \in DOMAIN dictionaries :
          /\ WordsOf(e) # {}
          /\ \E p \in DOMAIN purchases : p.dictionary = e
          /\ \E r \in progress : r.dictionary = e

\* C12 as stated: a word-create request adds a Word to a dictionary only when
\* the requester owns it, and one by a user who is not the owner of the named
\* dictionary, a purchaser included, is answered 403 and creates no Word.
C12_WordCreateByNonOwnerIs403 ==
    \A u \in Users, pk \in DOMAIN dictionaries, w \in WordInputs, t \in WordInputs :
        LET o == WordCreateView_post(u, pk, w, t)
        IN  /\ o.words # words => dictionaries[pk].owner = u
            /\ (dictionaries[pk].owner # u /\ w # Absent /\ t # Absent) =>
                  (o.response.status = 403 /\ o.words = words)

PairRows(table, u, pk) == {r \in table : r.user = u /\ r.dictionary = pk}

UniquePerPair(table) ==
    \A u \in Users, pk \in DictIds : Cardinality(PairRows(table, u, pk)) <= 1

InRange(field, lo, hi) == ~field.given \/ (lo <= field.value /\ field.value <= hi)

\* C15: every user's notification_hour is in 0..23 and notification_minute in
\* 0..59, a new user starting at 9 and 0; a profile PUT with an hour outside
\* 0..23 or a minute outside 0..59 answers 400 with errors under exactly the
\* offending fields and leaves every user as it was, and any other PUT
\* answers 200.
C15_NotificationTimeInRange ==
    /\ \A u \in DOMAIN users :
          /\ users[u].notification_hour \in 0..23
          /\ users[u].notification_minute \in 0..59
    /\ \A n \in UsernameInputs, e \in EmailInputs, p \in PasswordInputs :
          LET o == RegisterView_post(n, e, p)
          IN  \A u \in DOMAIN o.users \ DOMAIN users :
                  o.users[u].notification_hour = 9 /\ o.users[u].notification_minute = 0
    /\ \A u \in DOMAIN users, body \in ProfileBodies :
          LET o == UserProfileView_put(u, body)
              hourOk == InRange(body.notification_hour, 0, 23)
              minuteOk == InRange(body.notification_minute, 0, 59)
          IN  IF hourOk /\ minuteOk
              THEN o.response.status = 200 /\ o.errors = {}
              ELSE /\ o.response.status = 400
                   /\ ~o.response.hasData
                   /\ o.users = users
                   /\ "notification_hour" \in o.errors <=> ~hourOk
                   /\ "notification_minute" \in o.errors <=> ~minuteOk

\* A user whose time has been set to the upper ends 23:59, beside one still
\* at the defaults.
C15_Witness ==
    \E u, v \in DOMAIN users :
        /\ users[u].notification_hour = 23 /\ users[u].notification_minute = 59
        /\ users[v].notification_hour = 9 /\ users[v].notification_minute = 0

Identity(user) ==
    [username |-> user.username, email |-> user.email, balance |-> user.balance]

\* C16, per request: a profile PUT, whatever it supplies for username, email
\* and balance, leaves the username, email and balance of every user as they
\* were and changes no other user at all.
C16_ProfileRequest ==
    \A u \in DOMAIN users, body \in ProfileBodies :
        LET o == UserProfileView_put(u, body)
        IN  /\ DOMAIN o.users = DOMAIN users
            /\ Identity(o.users[u]) = Identity(users[u])
            /\ \A v \in DOMAIN users \ {u} : o.users[v] = users[v]

\* C16, per step: no step removes a user or changes a user's username, email
\* or balance, and a step that adds a Purchase changes no user at all.
C16_IdentityStep ==
    /\ \A u \in DOMAIN users :
          u \in DOMAIN users' /\ Identity(users'[u]) = Identity(users[u])
    /\ purchases' # purchases => users' = users

\* C16: id, username, email and balance of a registered user are never
\* changed: not by a profile PUT that supplies them, and not by a purchase,
\* which debits and credits nobody.
C16_IdentityAndBalanceFixed == []C16_ProfileRequest /\ [][C16_IdentityStep]_vars

\* A priced dictionary has been bought, buyer and owner both with the balance
\* they registered with, and the buyer has changed the notification settings.
C16_Witness ==
    \E p \in DOMAIN purchases :
        /\ dictionaries[p.dictionary].price = 500
        /\ users[p.user].balance = 0
        /\ users[dictionaries[p.dictionary].owner].balance = 0
        /\ users[p.user].notifications_enabled

\* C17 as stated: after any sequence of registrations no two users share a
\* username and no two users share an email.
C17_UniqueUsernameAndEmail ==
    \A u, v \in DOMAIN users :
        u # v => (users[u].username # users[v].username
                  /\ users[u].email # users[v].email)

\* C18: the dictionary list answers every user 200 with exactly the
\* dictionaries the user owns or holds a Purchase of, each once, and with no
\* other dictionary.
C18_ListIsOwnedOrPurchased ==
    \A u \in Users :
        LET o == DictionaryListView_get(u)
        IN  /\ o.response.status = 200
            /\ o.response.hasData
            /\ \A d \in DictIds :
                  CopiesIn(d, o.rows) =
                      IF d \in DOMAIN dictionaries /\ CanAccess(u, d) THEN 1 ELSE 0
            /\ o.response.list = {d \in DOMAIN dictionaries : CanAccess(u, d)}

\* A user who owns one dictionary and has bought the other, which its owner
\* lists alone.
C18_Witness ==
    \E u, v \in Users, d, e \in DOMAIN dictionaries :
        /\ dictionaries[d].owner = u /\ dictionaries[e].owner = v /\ u # v
        /\ Buys(u, e) # {} /\ ~CanAccess(v, d)

\* C19 as stated: a request without valid credentials (no token, or a token
\* that does not validate) is answered 401 by every operation other than
\* register, login and the marketplace, the tables staying as they were, and
\* is answered 200 by the marketplace.
C19_UnauthenticatedIs401 ==
    \A c \in Credentials :
        c.token # "valid" =>
            /\ \A op \in Operations \ {"register", "login", "marketplace"} :
                  \A rq \in RequestsOf(op) :
                      /\ Dispatch(op, c, rq).response.status = 401
                      /\ Dispatch(op, c, rq).state = Current
            /\ Dispatch("marketplace", c, NoRequest).response.status = 200

PurchaseMessages ==
    <<"Payment code is required.", "Invalid payment code. Please enter 1013.",
      "This dictionary is not for sale.", "You cannot buy your own dictionary.",
      "You have already purchased this dictionary.">>

\* The violated preconditions of a purchase request, by their place in the
\* order, read off the tables.
Violations(u, pk, payment_code) ==
    {i \in {1} : payment_code \in {Absent, ""}}
    \cup {i \in {2} : payment_code # "1013"}
    \cup {i \in {3} : ~dictionaries[pk].is_for_sale}
    \cup {i \in {4} : dictionaries[pk].owner = u}
    \cup {i \in {5} : Copies(u, pk) > 0}

\* C20: the five rejections of a purchase have five different messages, and a
\* request for an existing dictionary that violates one or more preconditions
\* is answered 400 with the message of the earliest violated one in the order
\* code missing, code wrong, not for sale, own dictionary, already purchased;
\* the owner buying an own dictionary that is not for sale with the valid code
\* is told it is not for sale.
C20_EarliestViolationReported ==
    /\ \A i, j \in 1..5 : i # j => PurchaseMessages[i] # PurchaseMessages[j]
    /\ \A u \in Users, pk \in DOMAIN dictionaries,
          c \in PaymentInputs, a \in AccessInputs :
          LET r == PurchaseDictionaryView_post(u, pk, c, a).response
              violated == Violations(u, pk, c)
          IN  /\ violated = {} => r.status = 201
              /\ violated # {} =>
                    /\ r.status = 400
                    /\ \E i \in violated :
                          /\ \A j \in violated : i <= j
                          /\ r.detail = PurchaseMessages[i]
              /\ (c = "1013" /\ dictionaries[pk].owner = u
                    /\ ~dictionaries[pk].is_for_sale) =>
                    r.detail = "This dictionary is not for sale."

\* An owner's dictionary that is not for sale, and a dictionary taken off
\* sale after a user bought it: requests violating several preconditions.
C20_Witness ==
    /\ \E pk \in DOMAIN dictionaries : ~dictionaries[pk].is_for_sale
    /\ \E u \in Users, pk \in DOMAIN dictionaries :
          Copies(u, pk) = 1 /\ ~dictionaries[pk].is_for_sale

\* C21: the purchase handler's duplicate check and its insert are separate
\* steps and the table has no constraint over (user, dictionary): a request
\* that has passed the check inserts its row whatever the table holds by
\* then, so two requests of one user for one dictionary that both pass the
\* check before either inserts leave two Purchase rows for the pair (the
\* state of the witness).  Only such inserts change the table, and a pair
\* never has more rows than there were requests in flight.
C21_InsertStep ==
    purchases' # purchases =>
        \E r \in inflight :
            /\ r.pc = "create"
            /\ r \notin inflight'
            /\ Copies(r.user, r.dictionary)' = Copies(r.user, r.dictionary) + 1

C21_PassedCheckInserts ==
    /\ \A r \in inflight :
          r.pc = "create" =>
              LET row == [user |-> r.user, dictionary |-> r.dictionary,
                          access_type |-> r.access_type]
                  table == InsertPurchase(r.user, r.dictionary, r.access_type)
              IN  CopiesIn(row, table) = CopiesIn(row, purchases) + 1
    /\ \A u \in Users, pk \in DictIds : Copies(u, pk) <= MaxInflight

C21_ConcurrentPurchasesDuplicate ==
    []C21_PassedCheckInserts /\ [][C21_InsertStep]_vars

C21_Witness ==
    \E u \in Users, pk \in DictIds :
        /\ Copies(u, pk) = 2
        /\ dictionaries[pk].owner # u

\* The fields of a Dictionary row that a request can set.
WritableFields ==
    {"name", "description", "is_for_sale", "price", "allow_temporary_access",
     "cover_image", "cover_image_file"}

\* C22: an update by the owner is partial: whatever the image lookup
\* returns, every field the request leaves out has the value it had before
\* the update.  Stated here for the fields that have a value to keep: a
\* cover_image that is still blank is left aside.
C22_UnspecifiedFieldsRetained ==
    \A u \in Users, pk \in DOMAIN dictionaries, body \in CoverBodies,
       image_url \in UnsplashResults :
        LET o == DictionaryDetailView_put(u, pk, body, image_url)
        IN  o.response.status = 200 =>
                \A f \in WritableFields :
                    (body[f] = Absent /\ ~(f = "cover_image" /\ dictionaries[pk][f] = "")) =>
                        o.dictionaries[pk][f] = dictionaries[pk][f]

\* The request supplies a cover: an uploaded file or a cover URL.
SuppliesCover(body) == body.cover_image_file # Absent \/ ~Falsy(body.cover_image)

\* C25: the image lookup never decides whether a create or an update
\* succeeds: the status of the response is the same under every result of
\* the lookup, and when the request supplies a cover the lookup plays no
\* part at all and the supplied cover is what is stored.
C25_LookupNeverDecidesSuccess ==
    /\ \A u \in Users, body \in CoverBodies, image_url \in UnsplashResults :
          LET o == DictionaryCreateView_post(u, body, image_url)
              failed == DictionaryCreateView_post(u, body, None)
          IN  /\ o.response.status = failed.response.status
              /\ SuppliesCover(body) => o = failed
              /\ (SuppliesCover(body) /\ o.response.status = 201) =>
                    LET d == o.dictionaries[nextDictId]
                    IN  /\ body.cover_image # Absent => d.cover_image = body.cover_image
                        /\ body.cover_image_file # Absent =>
                              d.cover_image_file = body.cover_image_file
    /\ \A u \in Users, pk \in DOMAIN dictionaries, body \in CoverBodies,
          image_url \in UnsplashResults :
          LET o == DictionaryDetailView_put(u, pk, body, image_url)
              failed == DictionaryDetailView_put(u, pk, body, None)
          IN  /\ o.response.status = failed.response.status
              /\ SuppliesCover(body) => o = failed
              /\ (SuppliesCover(body) /\ o.response.status = 200) =>
                    LET d == o.dictionaries[pk]
                    IN  /\ body.cover_image # Absent => d.cover_image = body.cover_image
                        /\ body.cover_image_file # Absent =>
                              d.cover_image_file = body.cover_image_file

\* C27, per request: a create stores the caller as owner whatever owner the
\* body names, with price 0.00 and is_for_sale false when the body leaves
\* them out; an update leaves owner as it is whatever owner the body names.
C27_OwnerRequest ==
    /\ \A u \in Users, body \in CoverBodies, image_url \in UnsplashResults :
          LET o == DictionaryCreateView_post(u, body, image_url)
          IN  o.response.status = 201 =>
                LET d == o.dictionaries[nextDictId]
                IN  /\ d.owner = u
                    /\ body.price = Absent => d.price = 0
                    /\ body.is_for_sale = Absent => ~d.is_for_sale
    /\ \A u \in Users, pk \in DOMAIN dictionaries, body \in CoverBodies,
          image_url \in UnsplashResults :
          LET o == DictionaryDetailView_put(u, pk, body, image_url)
          IN  /\ DOMAIN o.dictionaries = DOMAIN dictionaries
              /\ \A k \in DOMAIN dictionaries :
                    o.dictionaries[k].owner = dictionaries[k].owner

\* C27, per step: no step (update, purchase, progress save, ...) changes the
\* owner of a dictionary that it leaves in the table.
C27_OwnerStep ==
    \A pk \in (DOMAIN dictionaries) \cap (DOMAIN dictionaries') :
        dictionaries'[pk].owner = dictionaries[pk].owner

\* C27: the owner of a dictionary is the authenticated user who created it,
\* for as long as it exists; an owner named in the body of a create or an
\* update is ignored; a dictionary created without price and for-sale
\* values has price 0.00 and is not for sale.
C27_OwnerFixedAtCreation == []C27_OwnerRequest /\ [][C27_OwnerStep]_vars

\* alice's dictionary, created with the defaults, has been bought by bob, and
\* an update by alice that names bob as owner is accepted.
C27_Witness ==
    \E pk \in DOMAIN dictionaries, body \in CoverBodies :
        /\ dictionaries[pk].owner = "alice"
        /\ dictionaries[pk].price = 0
        /\ Copies("bob", pk) > 0
        /\ body.owner = "bob"
        /\ DictionaryDetailView_put("alice", pk, body, None).response.status = 200

\* The learned_words of the row of u and pk in a LearningProgress table.
LearnedOf(table, u, pk) ==
    (CHOOSE r \in table : r.user = u /\ r.dictionary = pk).learned_words

\* C23: a progress save that succeeds with learned_words = L leaves the
\* record's learned set equal to L, whatever it held before (an empty L
\* clears it), and answers with L; a save without learned_words leaves the
\* set as it was.
C23_SaveReplacesLearnedSet ==
    \A u \in Users, pk \in DOMAIN dictionaries, l \in LearnedInputs :
        LET o == LearningProgressView_post(u, pk, l)
        IN  o.response.status \in {200, 201} =>
              /\ Cardinality(PairRows(o.progress, u, pk)) = 1
              /\ l.given =>
                    /\ LearnedOf(o.progress, u, pk) = l.ids
                    /\ o.response.list = l.ids
              /\ (~l.given /\ ProgressOf(u, pk) # {}) =>
                    LearnedOf(o.progress, u, pk) = LearnedOf(progress, u, pk)

\* A record with learned words, for which a save with the empty list and a
\* save with a list that leaves one of its words out are both accepted.
C23_Witness ==
    \E r \in progress, l \in LearnedInputs :
        /\ r.learned_words # {}
        /\ l.given /\ l.ids # {} /\ ~(r.learned_words \subseteq l.ids)
        /\ LearningProgressView_post(r.user, r.dictionary, l).response.status = 200
        /\ LearningProgressView_post(r.user, r.dictionary,
                                     [given |-> TRUE, ids |-> {}]).response.status = 200

\* C24: a progress save neither rejects nor filters learned-word ids by
\* dictionary: for a caller with access, a list of ids of existing words is
\* accepted and stored as sent even when some of the words belong to
\* another dictionary.
C24_ForeignWordsAccepted ==
    \A u \in Users, pk \in DOMAIN dictionaries, l \in LearnedInputs :
        (/\ CanAccess(u, pk)
         /\ l.given
         /\ l.ids \subseteq DOMAIN words
         /\ \E w \in l.ids : words[w] # pk) =>
            LET o == LearningProgressView_post(u, pk, l)
            IN  /\ o.response.status \in {200, 201}
                /\ \E r \in o.progress :
                      /\ r.user = u /\ r.dictionary = pk
                      /\ r.learned_words = l.ids

\* A stored record holds a learned word of another dictionary.
C24_Witness ==
    \E r \in progress : \E w \in r.learned_words : words[w] # r.dictionary

\* C26, per state: a user who holds a Purchase of an existing dictionary
\* reads the dictionary, its words and their progress on it, whether the
\* access type is permanent or temporary and whether or not the dictionary
\* is (still) for sale.
C26_PurchaserReads ==
    \A u \in Users, pk \in DOMAIN dictionaries :
        Copies(u, pk) > 0 =>
            /\ Granted(DictionaryDetailView_get(u, pk))
            /\ Granted(DictionaryWordsView_get(u, pk))
            /\ Granted(LearningProgressView_get(u, pk).response)

\* C26, per step: a Purchase row of a dictionary that the step leaves in the
\* table is still there after the step, with the same access type.
C26_PurchaseStep ==
    \A p \in BagToSet(purchases) :
        p.dictionary \in DOMAIN dictionaries' =>
            CopiesIn(p, purchases') >= CopiesIn(p, purchases)

C28_OwnerNeverBuyer ==
    /\ \A p \in BagToSet(purchases) :
          /\ p.dictionary \in DOMAIN dictionaries
          /\ dictionaries[p.dictionary].owner # p.user
    /\ \A u \in Users \cup {AnonymousUser}, pk \in DOMAIN dictionaries :
          ~(get_is_owner(u, pk) /\ get_is_purchased(u, pk))
    /\ \A pk \in DOMAIN dictionaries :
          ~get_is_owner(AnonymousUser, pk) /\ ~get_is_purchased(AnonymousUser, pk)

\* The marketplace lists a dictionary that one user owns and the other has
\* bought.
C28_Witness ==
    \E pk \in MarketplaceView_get(AnonymousUser).list :
        /\ get_is_owner("alice", pk) /\ ~get_is_purchased("alice", pk)
        /\ get_is_purchased("bob", pk) /\ ~get_is_owner("bob", pk)

\* C29: every LearningProgress record is of a user who can access its
\* dictionary (the owner or a purchaser); a request of a user without access
\* creates none.
C29_ProgressImpliesAccess ==
    /\ \A r \in progress :
          /\ r.dictionary \in DOMAIN dictionaries
          /\ CanAccess(r.user, r.dictionary)
    /\ \A u \in Users, pk \in DOMAIN dictionaries, l \in LearnedInputs :
          ~CanAccess(u, pk) =>
              /\ LearningProgressView_get(u, pk).progress = progress
              /\ LearningProgressView_post(u, pk, l).progress = progress

\* A purchaser has a progress record, and the other user's dictionary is
\* closed to them.
C29_Witness ==
    \E r \in progress, pk \in DOMAIN dictionaries :
        /\ dictionaries[r.dictionary].owner # r.user
        /\ ~CanAccess(r.user, pk)

\* C30: a progress request that is rejected (403, 404, or 400 for invalid
\* learned_words) has no side effect: the LearningProgress table is after
\* it what it was before.
C30_RejectedHasNoSideEffect ==
    \A u \in Users, pk \in DictIds, l \in LearnedInputs :
        LET o == LearningProgressView_post(u, pk, l)
        IN  o.response.status \in {400, 403, 404} => o.progress = progress

====
